---- MODULE Spec2Model ----
(***************************************************************************)
(* Model of py4jps/data_model/base_ontology.py: the global object lookup,  *)
(* the property containers with their cardinality validation, the          *)
(* cache-based diff (collect_diff_to_graph), push_to_kg and pull_from_kg.  *)
(*                                                                         *)
(* The concrete ontology class is the one of the BaseOntology docstring:   *)
(*     class MyClass(BaseOntology):                                        *)
(*         myObjectProperty: MyObjectProperty                              *)
(*         myDataProperty: MyDataProperty                                  *)
(* with MyObjectProperty ranging over MyClass.                             *)
(***************************************************************************)
EXTENDS Integers, Sequences, FiniteSets, TLC

\* ---------------------------------------------------------------- bounds
MaxObjs == 3
MaxSteps == 3
MaxDepth == 1
MaxIn == 3
MaxFail == 2
MaxBudget == 3
NumThreads == 2

\* ------------------------------------------------------------- universes
IriSeq == <<"a", "b", "c">>
Iris == {IriSeq[i] : i \in 1..Len(IriSeq)}
Orders == {IriSeq, [i \in 1..Len(IriSeq) |-> IriSeq[Len(IriSeq) + 1 - i]]}
DataVals == {5, 7}
Comments == {"None", "note"}
Depths == (0 - 1)..MaxDepth

\* ------------------------------------------------- vocabulary and schema
None == "None"
RDF_type == "rdf:type"
RDFS_comment == "rdfs:comment"
MyClass == "MyClass"
myObjectProperty == "myObjectProperty"
myDataProperty == "myDataProperty"
RefMinCard == 0
RefMaxCard == 2
DataMinCard == 0
DataMaxCard == 1

URIRef(i) == <<"uri", i>>
Literal(v) == <<"lit", v>>

\* ----------------------------------------------------------------- state
VARIABLES objs, lookup, store, steps, thr
vars == <<objs, lookup, store, steps, thr>>

Handles == 1..Len(objs)

\* A range element of an object property: a live instance (o > 0) or a bare
\* iri string (o = 0); s is the value both hash to.
StrElem(i) == [o |-> 0, s |-> i]
ObjElem(h, i) == [o |-> h, s |-> i]
Keys(r) == {e.s : e \in r}

\* An equality by object identity: an instance differs from its iri string
ElemEq_Identity(e1, e2) == e1 = e2

\* BaseOntology.__hash__ / __eq__ and str equality inside a set: an instance
\* hashes as its instance_iri, so same iri, same element
ElemEq(e1, e2) == e1.s = e2.s

\* A difference that subtracts nothing
SetDifference_KeepAll(r1, r2) == r1

SetDifference(r1, r2) == {e \in r1 : \A f \in r2 : ~ElemEq(e, f)}

\* An intersection that loses every element
SetIntersection_Empty(self, other) == {}

\* CPython set.intersection walks the smaller operand (the argument when the
\* sizes are equal) and keeps that operand's elements.
SetIntersection(self, other) ==
    IF Cardinality(other) > Cardinality(self)
    THEN {e \in self : \E f \in other : ElemEq(e, f)}
    ELSE {e \in other : \E f \in self : ElemEq(e, f)}

\* set(list) over range elements: an element equal to an earlier one of the
\* list is not inserted, the earlier one stays
SetOfElems(l) == {l[i] : i \in {j \in DOMAIN l : \A k \in 1..(j - 1) : ~ElemEq(l[k], l[j])}}

\* set(list): the elements of a list, duplicates collapsed
SetOfList(l) == {l[i] : i \in DOMAIN l}

\* A length check that ignores the maximum
LenOK_NoMax(n, lo, hi) == lo <= n

\* annotated_types.Len(min, max) on the validated set
LenOK(n, lo, hi) == lo <= n /\ n <= hi

\* as_range_of_object_property(MyClass, RefMinCard, RefMaxCard)
as_range_of_object_property(r) == LenOK(Cardinality(r), RefMinCard, RefMaxCard)

\* as_range_of_data_property(t): at most one value
as_range_of_data_property(r) == LenOK(Cardinality(r), DataMinCard, DataMaxCard)

EmptyCache ==
    [set |-> FALSE, rdfs_comment |-> None, rdf_type |-> "", instance_iri |-> "",
     op_range |-> {}, dp_range |-> {}]

\* A cache that drops the ranges of the properties
create_cache_NoRanges(o) ==
    [set |-> TRUE, rdfs_comment |-> o.rdfs_comment, rdf_type |-> o.rdf_type,
     instance_iri |-> o.instance_iri, op_range |-> {}, dp_range |-> {}]

\* create_cache over every model field: object ranges reduced to iris
create_cache(o) ==
    [set |-> TRUE, rdfs_comment |-> o.rdfs_comment, rdf_type |-> o.rdf_type,
     instance_iri |-> o.instance_iri,
     op_range |-> {e.s : e \in o.op_range}, dp_range |-> o.dp_range]

\* The fields of a BaseOntology instance after __init__
NewObject(iri, opr, dpr, cmt) ==
    [instance_iri |-> iri, rdfs_comment |-> cmt, rdf_type |-> MyClass,
     op_range |-> opr, dp_range |-> dpr,
     latest_cache |-> EmptyCache, exist_in_kg |-> FALSE]

\* ------------------------------------------------------- object lookup
get_ontology_object_from_lookup(lk, iri) == lk[iri]

\* A registration without the membership test
set_new_ontology_object_Overwrite(lk, iri, h) ==
    [lookup |-> [lk EXCEPT ![iri] = h], ret |-> 0]

\* set_new_ontology_object: inserts when the iri is absent; the function has
\* no return statement, so the call evaluates to None (0)
set_new_ontology_object(lk, iri, h) ==
    [lookup |-> IF lk[iri] = 0 THEN [lk EXCEPT ![iri] = h] ELSE lk, ret |-> 0]

clear_ontology_object_lookup == [i \in Iris |-> 0]

\* ------------------------------------------------------------ diff engine
\* behaviour of recursive_depth: 0 no recursion, -1 infinite, n n-level
Abs(n) == IF n < 0 THEN 0 - n ELSE n
Max(m, n) == IF m > n THEN m ELSE n
\* A recursion flag that needs a budget above one
RecursionFlag_OffByOne(depth) == Abs(depth) > 1
RecursionFlag(depth) == Abs(depth) > 0
\* A budget that is decremented without the floors
NextDepth_NoFloor(depth) == depth - 1
NextDepth(depth) ==
    IF depth > 0 - 1 THEN Max(depth - 1, 0) ELSE Max(depth - 1, 0 - 1)
\* The same two lines at the head of pull_from_kg
PullFlag(recursive_depth) == Abs(recursive_depth) > 0
PullNextDepth(recursive_depth) ==
    IF recursive_depth > 0 - 1 THEN Max(recursive_depth - 1, 0) ELSE Max(recursive_depth - 1, 0 - 1)

\* A diff in progress: the instances (collect_diff_to_graph sets
\* _exist_in_kg), the two graphs, and the error that ended it: the recursion
\* re-entering an instance of its own call stack with the unbounded budget
\* never returns (RecursionError).
DiffStart(os) == [objs |-> os, rem |-> {}, add |-> {}, err |-> "ok"]

\* The instance a range element stands for: the live instance itself, or
\* the lookup entry of a bare iri (0 when there is none)
Resolve(e, lk) == IF e.o # 0 THEN e.o ELSE get_ontology_object_from_lookup(lk, e.s)

\* DataProperty.collect_range_diff_to_graph
DataProperty_collect_range_diff_to_graph(D, subject, now, cache) ==
    [D EXCEPT
        !.rem = @ \cup {<<subject, myDataProperty, Literal(d)>> : d \in cache \ now},
        !.add = @ \cup {<<subject, myDataProperty, Literal(d)>> : d \in now \ cache}]

\* The rdfs_comment branch of collect_diff_to_graph
CommentDiff(D, subject, now, cached) ==
    IF cached # now
    THEN [D EXCEPT
            !.rem = IF cached # None
                    THEN @ \cup {<<subject, RDFS_comment, Literal(cached)>>} ELSE @,
            !.add = IF now # None
                    THEN @ \cup {<<subject, RDFS_comment, Literal(now)>>} ELSE @]
    ELSE D

\* The rdf_type branch of collect_diff_to_graph
\* An rdf_type branch that emits the edge and leaves _exist_in_kg as it was
TypeDiff_NoMark(D, h) ==
    IF ~D.objs[h].exist_in_kg /\ D.objs[h].latest_cache.rdf_type = ""
    THEN [D EXCEPT !.add = @ \cup {<<D.objs[h].instance_iri, RDF_type, URIRef(D.objs[h].rdf_type)>>}]
    ELSE D

\* An rdf_type branch that marks the instance and emits no edge
TypeDiff_NoEdge(D, h) == [D EXCEPT !.objs = [@ EXCEPT ![h].exist_in_kg = TRUE]]

TypeDiff(D, h) ==
    LET o == D.objs[h]
    IN  IF ~o.exist_in_kg /\ o.latest_cache.rdf_type = ""
        THEN [D EXCEPT
                !.add = @ \cup {<<o.instance_iri, RDF_type, URIRef(o.rdf_type)>>},
                !.objs = [@ EXCEPT ![h].exist_in_kg = TRUE]]
        ELSE D

RECURSIVE collect_diff_to_graph(_, _, _, _, _, _)
RECURSIVE ForEachInRange(_, _, _, _, _, _, _, _, _, _)

\* One of the three loops of ObjectProperty.collect_range_diff_to_graph over
\* a set of range elements, taken in the order ord: graph is "add",
\* "remove" or "none" (the intersection loop emits no edge).
ForEachInRange(D, elems, k, graph, subject, flag_collect, depth, stack, lk, ord) ==
    IF k > Len(ord) \/ D.err # "ok" THEN D
    ELSE LET es == {e \in elems : e.s = ord[k]}
         IN  IF es = {}
             THEN ForEachInRange(D, elems, k + 1, graph, subject, flag_collect,
                                 depth, stack, lk, ord)
             ELSE LET e == CHOOSE x \in es : TRUE
                      edge == <<subject, myObjectProperty, URIRef(e.s)>>
                      D1 == [D EXCEPT
                               !.add = IF graph = "add" THEN @ \cup {edge} ELSE @,
                               !.rem = IF graph = "remove" THEN @ \cup {edge} ELSE @]
                      o_py == Resolve(e, lk)
                      D2 == IF flag_collect /\ o_py # 0
                            THEN collect_diff_to_graph(D1, o_py, depth, stack, lk, ord)
                            ELSE D1
                  IN  ForEachInRange(D2, elems, k + 1, graph, subject, flag_collect,
                                     depth, stack, lk, ord)

\* ObjectProperty.collect_range_diff_to_graph
ObjectProperty_collect_range_diff_to_graph(D, subject, now, cache, recursive_depth, stack, lk, ord) ==
    LET flag_collect == RecursionFlag(recursive_depth)
        depth == NextDepth(recursive_depth)
        diff_to_remove == SetDifference(cache, now)
        diff_to_add == SetDifference(now, cache)
        D1 == ForEachInRange(D, diff_to_add, 1, "add", subject, flag_collect,
                             depth, stack, lk, ord)
        D2 == ForEachInRange(D1, diff_to_remove, 1, "remove", subject, flag_collect,
                             depth, stack, lk, ord)
    IN  IF flag_collect
        THEN ForEachInRange(D2, SetIntersection(now, cache), 1, "none", subject,
                            flag_collect, depth, stack, lk, ord)
        ELSE D2

\* A diff that ignores the cached range
CachedOpRange_Empty(o) == {}

\* The cached range of the object property: the cache entry, or the default
\* MyObjectProperty() when the cache has none
CachedOpRange(o) == {StrElem(i) : i \in o.latest_cache.op_range}

\* A diff that keeps the instances of its call stack as a visited set and
\* returns at once from an instance it is already in
collect_diff_to_graph_Visited(D, h, recursive_depth, stack, lk, ord) ==
    IF D.err # "ok" \/ h \in stack THEN D
    ELSE LET o == D.objs[h]
             D1 == CommentDiff(D, o.instance_iri, o.rdfs_comment,
                               o.latest_cache.rdfs_comment)
             D2 == TypeDiff(D1, h)
             D3 == ObjectProperty_collect_range_diff_to_graph(
                       D2, o.instance_iri, o.op_range, CachedOpRange(o),
                       recursive_depth, stack \cup {h}, lk, ord)
         IN  DataProperty_collect_range_diff_to_graph(
                 D3, o.instance_iri, o.dp_range, o.latest_cache.dp_range)

\* BaseOntology.collect_diff_to_graph, the fields in model_fields order:
\* rdfs_comment, rdf_type, instance_iri, myObjectProperty, myDataProperty.
\* `field_info.annotation()` builds the default property eagerly, so a
\* property class whose minimum cardinality is positive cannot be diffed.
collect_diff_to_graph(D, h, recursive_depth, stack, lk, ord) ==
    IF D.err # "ok" THEN D
    ELSE IF recursive_depth < 0 /\ h \in stack
    THEN [D EXCEPT !.err = "RecursionError"]
    ELSE IF ~as_range_of_object_property({}) \/ ~as_range_of_data_property({})
    THEN [D EXCEPT !.err = "CardinalityError"]
    ELSE LET o == D.objs[h]
             D1 == CommentDiff(D, o.instance_iri, o.rdfs_comment,
                               o.latest_cache.rdfs_comment)
             D2 == TypeDiff(D1, h)
             D3 == ObjectProperty_collect_range_diff_to_graph(
                       D2, o.instance_iri, o.op_range, CachedOpRange(o),
                       recursive_depth, stack \cup {h}, lk, ord)
         IN  IF D3.err # "ok" THEN D3
             ELSE DataProperty_collect_range_diff_to_graph(
                      D3, o.instance_iri, o.dp_range, o.latest_cache.dp_range)

\* PySparqlClient.delete_and_insert_graphs: delete, then insert
delete_and_insert_graphs(g, g_to_remove, g_to_add) == (g \ g_to_remove) \cup g_to_add

\* ------------------------------------------------------------ pull engine
\* PySparqlClient.get_outgoing_and_attributes: {iri: {predicate: {object}}}
\* for the iris that have triples
get_outgoing_and_attributes(g, iris) == {i \in iris : \E t \in g : t[1] = i}
Props(g, iri, pred) == {t[3][2] : t \in {u \in g : u[1] = iri /\ u[2] = pred}}

\* A pull in progress: the instances, the lookup, the instance_lst of the
\* running call, the error that ended it, whether it needs more instances
\* than the model holds, the number of transport queries issued so far, and
\* the query at which the transport raises (0: at none).
PullStart(os, lk) == [objs |-> os, lookup |-> lk, lst |-> <<>>, err |-> "ok", full |-> FALSE, queries |-> 0, fail_at |-> 0]
Stopped(P) == P.err # "ok" \/ P.full

\* A completion of the pull that empties the live ranges of the instance
\* before the cache is taken
Finish_ClearRanges(P, iri, h) ==
    LET o == [P.objs[h] EXCEPT !.op_range = {}, !.dp_range = {}]
    IN  [P EXCEPT
            !.objs = [@ EXCEPT ![h] = [o EXCEPT !.exist_in_kg = TRUE,
                                                !.latest_cache = create_cache(o)]],
            !.lst = Append(@, h),
            !.lookup = set_new_ontology_object(@, iri, h).lookup]

\* inst._exist_in_kg = True, the cache refresh, instance_lst.append(inst)
\* and set_new_ontology_object(iri, inst) of pull_from_kg
Finish(P, iri, h) ==
    [P EXCEPT
        !.objs = [@ EXCEPT ![h] = [P.objs[h] EXCEPT
                                      !.exist_in_kg = TRUE,
                                      !.latest_cache = create_cache(P.objs[h])]],
        !.lst = Append(@, h),
        !.lookup = set_new_ontology_object(@, iri, h).lookup]

\* cls(instance_iri=iri, **object_properties_dict, **data_properties_dict),
\* with the registration of set_rdf_type
Build(P, iri, opr, dpr) ==
    IF Len(P.objs) >= MaxObjs THEN [P EXCEPT !.full = TRUE]
    ELSE [P EXCEPT
            !.objs = Append(@, NewObject(iri, opr, dpr, None)),
            !.lookup = set_new_ontology_object(@, iri, Len(P.objs) + 1).lookup]

RECURSIVE pull_from_kg(_, _, _, _, _, _)
RECURSIVE PullNode(_, _, _, _, _, _, _)
RECURSIVE PullLoop(_, _, _, _, _, _, _, _)

\* The body of the loop `for iri, props in node_dct.items()`
PullNode(P, iri, flag_pull, depth, stack, g, ord) ==
    LET inst == get_ontology_object_from_lookup(P.lookup, iri)
        refs == Props(g, iri, myObjectProperty)
        \* object_properties_dict: the recursion of the object property
        R == IF refs # {} /\ flag_pull
             THEN pull_from_kg(P, refs, depth, stack \cup {iri}, g, ord)
             ELSE P
        opr == IF refs = {} THEN {}
               ELSE IF flag_pull
                    THEN {ObjElem(R.lst[j], R.objs[R.lst[j]].instance_iri) :
                              j \in DOMAIN R.lst}
                    ELSE {StrElem(i) : i \in refs}
        P1 == [R EXCEPT !.lst = P.lst]
        \* data_properties_dict
        dpr == Props(g, iri, myDataProperty)
    IN  IF Stopped(R) THEN P1
        ELSE IF ~as_range_of_object_property(opr) \/ ~as_range_of_data_property(dpr)
        THEN [P1 EXCEPT !.err = "CardinalityError"]
        ELSE IF inst # 0
        THEN LET known == Keys(P1.objs[inst].op_range) \ refs
                 R2 == IF flag_pull
                       THEN pull_from_kg(P1, known, depth, stack \cup {iri}, g, ord)
                       ELSE P1
                 P2 == [R2 EXCEPT !.lst = P.lst]
             IN  IF Stopped(R2) THEN P2 ELSE Finish(P2, iri, inst)
        ELSE LET P2 == Build(P1, iri, opr, dpr)
             IN  IF Stopped(P2) THEN P2 ELSE Finish(P2, iri, Len(P2.objs))

PullLoop(P, node_dct, k, flag_pull, depth, stack, g, ord) ==
    IF k > Len(ord) \/ Stopped(P) THEN P
    ELSE IF ord[k] \notin node_dct
    THEN PullLoop(P, node_dct, k + 1, flag_pull, depth, stack, g, ord)
    ELSE IF flag_pull /\ depth < 0 /\ ord[k] \in stack
    THEN [P EXCEPT !.err = "RecursionError"]
    ELSE PullLoop(PullNode(P, ord[k], flag_pull, depth, stack, g, ord),
                  node_dct, k + 1, flag_pull, depth, stack, g, ord)

\* BaseOntology.pull_from_kg; returns the pull with lst = instance_lst. The
\* one transport query of the call comes first; an exception of the transport
\* leaves the call before the loop.
pull_from_kg(P, iris, recursive_depth, stack, g, ord) ==
    LET Q == [P EXCEPT !.lst = <<>>, !.queries = @ + 1]
    IN  IF Q.queries = Q.fail_at THEN [Q EXCEPT !.err = "TransportError"]
        ELSE PullLoop(Q, get_outgoing_and_attributes(g, iris), 1,
                      PullFlag(recursive_depth), PullNextDepth(recursive_depth), stack, g, ord)

\* ---------------------------------------------------------- operations
\* MyObjectProperty(range=r) and `prop.range = r`: the Len validation of the
\* range runs on construction and (validate_assignment) on assignment
MyObjectProperty(r) ==
    [range |-> r, err |-> IF as_range_of_object_property(r) THEN "ok" ELSE "CardinalityError"]

\* MyDataProperty(range=l): BaseProperty.__init__ turns the list into a set,
\* then the Len validation runs
MyDataProperty(l) ==
    LET r == SetOfList(l)
    IN  [range |-> r, err |-> IF as_range_of_data_property(r) THEN "ok" ELSE "CardinalityError"]

\* MyClass(instance_iri=iri, myObjectProperty=MyObjectProperty(range=r),
\*         myDataProperty=MyDataProperty(range=l)): the properties are built
\* first, and a cardinality violation raises before any instance exists;
\* set_rdf_type derives the rdf_type and registers the instance.
BaseOntology_init(os, lk, iri, r, l) ==
    LET op == MyObjectProperty(r)
        dp == MyDataProperty(l)
    IN  IF op.err # "ok" \/ dp.err # "ok"
        THEN [objs |-> os, lookup |-> lk, err |-> "CardinalityError"]
        ELSE [objs |-> Append(os, NewObject(iri, op.range, dp.range, None)),
              lookup |-> set_new_ontology_object(lk, iri, Len(os) + 1).lookup,
              err |-> "ok"]

\* inst.myObjectProperty.range = r, an assignment on the property itself: a
\* failed validation leaves the old range
set_object_range(os, h, r) ==
    LET op == MyObjectProperty(r)
    IN  [objs |-> IF op.err = "ok" THEN [os EXCEPT ![h].op_range = op.range] ELSE os,
         err |-> op.err]

\* set_rdf_type runs again after every assignment to a field of the
\* instance (validate_assignment): the instance registers itself if its iri
\* has no entry
set_rdf_type(lk, os, h) == set_new_ontology_object(lk, os[h].instance_iri, h).lookup

\* inst.myDataProperty = MyDataProperty(range=l): the property is built, and
\* raises, before the assignment
set_data_range(os, lk, h, l) ==
    LET dp == MyDataProperty(l)
    IN  IF dp.err # "ok" THEN [objs |-> os, lookup |-> lk, err |-> dp.err]
        ELSE [objs |-> [os EXCEPT ![h].dp_range = dp.range],
              lookup |-> set_rdf_type(lk, os, h), err |-> "ok"]

\* inst.rdfs_comment = c
set_comment(os, lk, h, c) ==
    [objs |-> [os EXCEPT ![h].rdfs_comment = c], lookup |-> set_rdf_type(lk, os, h)]

\* A diff that descends one level further than a finite budget allows
collect_diff_Deeper(os, lk, h, d, ord) ==
    LET D == collect_diff_to_graph(DiffStart(os), h, IF d >= 0 THEN d + 1 ELSE d, {}, lk, ord)
    IN  [objs |-> D.objs,
         g_to_remove |-> IF D.err # "ok" THEN {} ELSE D.rem,
         g_to_add |-> IF D.err # "ok" THEN {} ELSE D.add,
         err |-> D.err]

\* inst.collect_diff_to_graph(Graph(), Graph(), d), called on an instance
collect_diff(os, lk, h, d, ord) ==
    LET D == collect_diff_to_graph(DiffStart(os), h, d, {}, lk, ord)
    IN  [objs |-> D.objs,
         g_to_remove |-> IF D.err # "ok" THEN {} ELSE D.rem,
         g_to_add |-> IF D.err # "ok" THEN {} ELSE D.add,
         err |-> D.err]

\* A push that refreshes the cache of the pushed instance after the update
push_to_kg_Refresh(os, lk, g, h, d, ord) ==
    LET D == collect_diff(os, lk, h, d, ord)
    IN  [objs |-> IF D.err = "ok"
                  THEN [D.objs EXCEPT ![h].latest_cache = create_cache(D.objs[h])]
                  ELSE D.objs,
         store |-> IF D.err = "ok"
                   THEN delete_and_insert_graphs(g, D.g_to_remove, D.g_to_add) ELSE g,
         g_to_remove |-> D.g_to_remove, g_to_add |-> D.g_to_add, err |-> D.err]

\* BaseOntology.push_to_kg: the diff, then one delete-and-insert update; the
\* cache is left as it was
push_to_kg(os, lk, g, h, d, ord) ==
    LET D == collect_diff(os, lk, h, d, ord)
    IN  [objs |-> D.objs,
         store |-> IF D.err = "ok"
                   THEN delete_and_insert_graphs(g, D.g_to_remove, D.g_to_add) ELSE g,
         g_to_remove |-> D.g_to_remove, g_to_add |-> D.g_to_add, err |-> D.err]

\* The outcome R of a push whose update raised (fail) instead of changing
\* the store g: no graphs are returned
Raise(R, g, fail) ==
    IF fail /\ R.err = "ok"
    THEN [R EXCEPT !.store = g, !.g_to_remove = {}, !.g_to_add = {},
                   !.err = "TransportError"]
    ELSE R

\* The same call when the transport raises in delete_and_insert_graphs
\* (fail): the diff has been collected, the update is not applied, and the
\* exception leaves push_to_kg
push_failing(os, lk, g, h, d, ord, fail) ==
    Raise(push_to_kg(os, lk, g, h, d, ord), g, fail)

\* MyClass.pull_from_kg(iris, sparql_client, d), called by the user
pull(os, lk, g, iris, d, ord) ==
    LET P == pull_from_kg(PullStart(os, lk), iris, d, {}, g, ord)
    IN  [objs |-> P.objs, lookup |-> P.lookup,
         lst |-> IF P.err = "ok" THEN {P.lst[j] : j \in DOMAIN P.lst} ELSE {},
         err |-> P.err, full |-> P.full]

\* The same call when the n-th transport query of the call raises
pull_failing(os, lk, g, iris, d, ord, n) ==
    LET P == pull_from_kg([PullStart(os, lk) EXCEPT !.fail_at = n], iris, d, {}, g, ord)
    IN  [objs |-> P.objs, lookup |-> P.lookup,
         lst |-> IF P.err = "ok" THEN {P.lst[j] : j \in DOMAIN P.lst} ELSE {},
         err |-> P.err, full |-> P.full, queries |-> P.queries]

\* ------------------------------------------------------------ the inputs
ObjIris == {"a", "b"}
\* Object ranges assigned by the user: bare iris, or one live instance
RefInputs ==
    {{StrElem(i) : i \in is} : is \in {x \in SUBSET Iris : Cardinality(x) <= MaxIn}}
        \cup {{ObjElem(h, objs[h].instance_iri)} : h \in Handles}
DataInputs == UNION {[1..n -> DataVals] : n \in 0..MaxIn}
PullInputs == SUBSET Iris \ {{}}
\* The transport query that raises during a pull: none, the first, the second
FailAts == 0..MaxFail
\* The threads that call into the module concurrently, and a thread that is
\* in no call: pc is its position in set_new_ontology_object, absent the
\* outcome of `iri not in GLOBAL_OBJECT_LOOKUP` it evaluated, seen the
\* result of its get_ontology_object_from_lookup.
Threads == 1..NumThreads
\* Depth budgets a caller can pass, those below -1 and above MaxDepth included
Budgets == (0 - MaxBudget)..MaxBudget
Idle == [pc |-> "idle", iri |-> "", obj |-> 0, absent |-> FALSE, seen |-> 0]
\* The constructor is called with one populated property at most: a data
\* list, or a single live instance as the object range.
InitInputs ==
    {<<{}, l>> : l \in DataInputs}
        \cup {<<{ObjElem(h, objs[h].instance_iri)}, <<>>>> : h \in Handles}

\* The knowledge graph when the process starts: c, of MyClass, references
\* itself and a and has one attribute value; a is of MyClass.
KG0 ==
    {<<"c", RDF_type, URIRef(MyClass)>>, <<"c", myObjectProperty, URIRef("c")>>,
     <<"c", myObjectProperty, URIRef("a")>>, <<"c", myDataProperty, Literal(5)>>,
     <<"a", RDF_type, URIRef(MyClass)>>}

Init ==
    /\ objs = <<>>
    /\ lookup = [i \in Iris |-> 0]
    /\ store = KG0
    /\ steps = 0
    /\ thr = [t \in Threads |-> Idle]

Construct(iri, r, l) ==
    /\ steps < MaxSteps
    /\ Len(objs) < MaxObjs
    /\ LET R == BaseOntology_init(objs, lookup, iri, r, l)
       IN  objs' = R.objs /\ lookup' = R.lookup
    /\ store' = store
    /\ steps' = steps + 1
    /\ UNCHANGED thr

SetObjectRange(h, r) ==
    /\ steps < MaxSteps
    /\ objs' = set_object_range(objs, h, r).objs
    /\ UNCHANGED <<lookup, store>>
    /\ steps' = steps + 1
    /\ UNCHANGED thr

SetDataRange(h, l) ==
    /\ steps < MaxSteps
    /\ LET R == set_data_range(objs, lookup, h, l)
       IN  objs' = R.objs /\ lookup' = R.lookup
    /\ store' = store
    /\ steps' = steps + 1
    /\ UNCHANGED thr

SetComment(h, c) ==
    /\ steps < MaxSteps
    /\ LET R == set_comment(objs, lookup, h, c)
       IN  objs' = R.objs /\ lookup' = R.lookup
    /\ store' = store
    /\ steps' = steps + 1
    /\ UNCHANGED thr

\* set_new_ontology_object(inst.instance_iri, inst), called directly
Register(h) ==
    /\ steps < MaxSteps
    /\ lookup' = set_new_ontology_object(lookup, objs[h].instance_iri, h).lookup
    /\ UNCHANGED <<objs, store>>
    /\ steps' = steps + 1
    /\ UNCHANGED thr

\* clear_ontology_object_lookup()
Clear ==
    /\ steps < MaxSteps
    /\ lookup' = clear_ontology_object_lookup
    /\ UNCHANGED <<objs, store>>
    /\ steps' = steps + 1
    /\ UNCHANGED thr

Diff(h, d, ord) ==
    /\ steps < MaxSteps
    /\ objs' = collect_diff(objs, lookup, h, d, ord).objs
    /\ UNCHANGED <<lookup, store>>
    /\ steps' = steps + 1
    /\ UNCHANGED thr

Push(h, d, ord, fail) ==
    /\ steps < MaxSteps
    /\ LET R == push_failing(objs, lookup, store, h, d, ord, fail)
       IN  objs' = R.objs /\ store' = R.store
    /\ UNCHANGED lookup
    /\ steps' = steps + 1
    /\ UNCHANGED thr

Pull(iris, d, ord, n) ==
    /\ steps < MaxSteps
    /\ LET R == pull_failing(objs, lookup, store, iris, d, ord, n)
       IN  ~R.full /\ objs' = R.objs /\ lookup' = R.lookup
    /\ store' = store
    /\ steps' = steps + 1
    /\ UNCHANGED thr

Next ==
    \/ \E iri \in ObjIris, in \in InitInputs : Construct(iri, in[1], in[2])
    \/ \E h \in Handles, r \in RefInputs : SetObjectRange(h, r)
    \/ \E h \in Handles, l \in DataInputs : SetDataRange(h, l)
    \/ \E h \in Handles, c \in Comments : SetComment(h, c)
    \/ \E h \in Handles : Register(h)
    \/ Clear
    \/ \E h \in Handles, d \in Depths, ord \in Orders : Diff(h, d, ord)
    \/ \E h \in Handles, d \in Depths, ord \in Orders, fail \in BOOLEAN :
           Push(h, d, ord, fail)
    \/ \E iris \in PullInputs, d \in Depths, ord \in Orders, n \in FailAts :
           Pull(iris, d, ord, n)

Spec == Init /\ [][Next]_vars

\* ----------------------------------------- threads on the object lookup
\* The module takes no lock; a thread switch can fall between any two
\* bytecodes, so between the membership test and the assignment of
\* set_new_ontology_object. Each thread registers an instance, then looks
\* its iri up.

\* MyClass(instance_iri=iri) in thread t, up to the call of
\* set_new_ontology_object in set_rdf_type
ThreadConstruct(t, iri) ==
    /\ thr[t].pc = "idle"
    /\ Len(objs) < MaxObjs
    /\ objs' = Append(objs, NewObject(iri, {}, {}, None))
    /\ thr' = [thr EXCEPT ![t] = [Idle EXCEPT !.pc = "check", !.iri = iri, !.obj = Len(objs) + 1]]
    /\ UNCHANGED <<lookup, store, steps>>

\* set_new_ontology_object(inst.instance_iri, inst) called by thread t
ThreadRegister(t, h) ==
    /\ thr[t].pc = "idle"
    /\ thr' = [thr EXCEPT ![t] = [Idle EXCEPT !.pc = "check", !.iri = objs[h].instance_iri, !.obj = h]]
    /\ UNCHANGED <<objs, lookup, store, steps>>

\* `if iri not in GLOBAL_OBJECT_LOOKUP`
ThreadCheck(t) ==
    /\ thr[t].pc = "check"
    /\ thr' = [thr EXCEPT ![t].pc = "insert", ![t].absent = (lookup[thr[t].iri] = 0)]
    /\ UNCHANGED <<objs, lookup, store, steps>>

\* `GLOBAL_OBJECT_LOOKUP[iri] = obj`, in the branch the test chose
ThreadInsert(t) ==
    /\ thr[t].pc = "insert"
    /\ lookup' = IF thr[t].absent THEN [lookup EXCEPT ![thr[t].iri] = thr[t].obj] ELSE lookup
    /\ thr' = [thr EXCEPT ![t].pc = "lookup"]
    /\ UNCHANGED <<objs, store, steps>>

\* get_ontology_object_from_lookup(iri) by the caller, after the registration
ThreadLookup(t) ==
    /\ thr[t].pc = "lookup"
    /\ thr' = [thr EXCEPT ![t].pc = "done", ![t].seen = get_ontology_object_from_lookup(lookup, thr[t].iri)]
    /\ UNCHANGED <<objs, lookup, store, steps>>

\* The caller returns; the thread is free for another call
ThreadReturn(t) ==
    /\ thr[t].pc = "done"
    /\ thr' = [thr EXCEPT ![t] = Idle]
    /\ UNCHANGED <<objs, lookup, store, steps>>

NextThreads ==
    \/ \E t \in Threads, iri \in ObjIris : ThreadConstruct(t, iri)
    \/ \E t \in Threads, h \in Handles : ThreadRegister(t, h)
    \/ \E t \in Threads : ThreadCheck(t)
    \/ \E t \in Threads : ThreadInsert(t)
    \/ \E t \in Threads : ThreadLookup(t)
    \/ \E t \in Threads : ThreadReturn(t)

SpecThreads == Init /\ [][NextThreads]_vars

\* ============================================================ properties
\* Each property that concerns one call is stated over the result of that
\* call in every reachable state.

Fresh(o) == ~o.exist_in_kg /\ ~o.latest_cache.set
UniqueIri(h) == \A k \in Handles : k # h => objs[k].instance_iri # objs[h].instance_iri
TypeEdge(o) == <<o.instance_iri, RDF_type, URIRef(o.rdf_type)>>
RefEdge(subject, i) == <<subject, myObjectProperty, URIRef(i)>>
AttrEdge(subject, v) == <<subject, myDataProperty, Literal(v)>>
IsBare(o) == o.op_range = {} /\ o.rdfs_comment = None

\* C1 (store convergence after push): after a push of x that succeeds, the
\* store's values for each declared property of x are exactly x's current
\* range. Stated for instances that were never pulled and share their iri
\* with no other instance, so that every edge of x in the store comes from a
\* push of x.
C1_StoreConvergence ==
    \A h \in Handles, ord \in Orders :
        (UniqueIri(h) /\ ~objs[h].latest_cache.set) =>
            LET R == push_to_kg(objs, lookup, store, h, 0, ord)
                x == R.objs[h]
            IN  R.err = "ok" =>
                    /\ Props(R.store, x.instance_iri, myObjectProperty) = Keys(x.op_range)
                    /\ Props(R.store, x.instance_iri, myDataProperty) = x.dp_range

\* C2 (second diff against the un-refreshed cache): x was pushed with
\* attribute value 5 and never pulled, then its value was set to 7; the claim
\* is that collect_diff_to_graph gives toAdd = {(x, p, 7)} and
\* toRemove = {(x, p, 5)}.
C2_Pre(h) ==
    /\ UniqueIri(h) /\ ~objs[h].latest_cache.set /\ objs[h].exist_in_kg
    /\ IsBare(objs[h]) /\ objs[h].dp_range = {7}
    /\ Props(store, objs[h].instance_iri, myDataProperty) = {5}
    /\ TypeEdge(objs[h]) \in store

C2_SecondDiffRemovesOld ==
    \A h \in Handles, ord \in Orders :
        C2_Pre(h) =>
            LET D == collect_diff(objs, lookup, h, 0, ord)
            IN  /\ D.g_to_add = {AttrEdge(objs[h].instance_iri, 7)}
                /\ D.g_to_remove = {AttrEdge(objs[h].instance_iri, 5)}

\* C2: the state the scenario leaves, reached by construct, push, assign
C2_Witness == \E h \in Handles : C2_Pre(h)

\* C3 (first push emits the type tag): a fresh x with no cache, one attribute
\* value v and nothing else pushes exactly its type edge and (x, p, v), and
\* removes nothing.
C3_FirstPush ==
    \A h \in Handles, ord \in Orders, v \in DataVals :
        (Fresh(objs[h]) /\ IsBare(objs[h]) /\ objs[h].dp_range = {v}) =>
            LET R == push_to_kg(objs, lookup, store, h, 0, ord)
            IN  /\ R.err = "ok"
                /\ R.g_to_add = {TypeEdge(objs[h]), AttrEdge(objs[h].instance_iri, v)}
                /\ R.g_to_remove = {}

\* C3: a fresh b holding the value 5, about to be pushed for the first time
C3_Witness ==
    \E h \in Handles :
        /\ objs[h].instance_iri = "b" /\ Fresh(objs[h]) /\ IsBare(objs[h])
        /\ objs[h].dp_range = {5}
        /\ Cardinality(push_to_kg(objs, lookup, store, h, 0, IriSeq).g_to_add) = 2

\* The cache of o equals its state: every property range and the comment
CacheEqualsState(o) ==
    /\ o.latest_cache.op_range = Keys(o.op_range)
    /\ o.latest_cache.dp_range = o.dp_range
    /\ o.latest_cache.rdfs_comment = o.rdfs_comment
NeedsTypeEdge(o) == ~o.exist_in_kg /\ o.latest_cache.rdf_type = ""

\* The instances a diff can step to from h: its live range elements and the
\* lookup entries of its cached and bare iris
Nbrs(h) == {Resolve(e, lookup) : e \in objs[h].op_range \cup CachedOpRange(objs[h])} \ {0}
RECURSIVE Within(_, _)
\* The instances within d steps of S (all of them when d < 0)
Within(S, d) ==
    IF d = 0 THEN S
    ELSE LET T == S \cup UNION {Nbrs(k) : k \in S}
         IN  IF T = S THEN S ELSE Within(T, d - 1)

\* C4 (diff minimality) as claimed: an instance whose cache equals its state
\* has an empty diff at every depth at which the diff terminates, a
\* never-pushed instance with empty properties included.
C4_CleanDiffEmpty ==
    \A h \in Handles, d \in Depths, ord \in Orders :
        CacheEqualsState(objs[h]) =>
            LET D == collect_diff(objs, lookup, h, d, ord)
            IN  D.err = "ok" => D.g_to_add = {} /\ D.g_to_remove = {}

\* C4 as it holds: with the cache equal to the state, the diff at depth 0
\* removes nothing and adds only the type edge, and that only when the
\* instance neither exists in the store nor has a cached rdf_type; at any
\* depth at which it terminates the diff is empty when every instance within
\* the budget has its cache equal to its state and needs no type edge.
C4_CleanDiff ==
    \A h \in Handles, d \in Depths, ord \in Orders :
        CacheEqualsState(objs[h]) =>
            LET D == collect_diff(objs, lookup, h, d, ord)
            IN  D.err = "ok" =>
                    /\ d = 0 =>
                          /\ D.g_to_remove = {}
                          /\ D.g_to_add = IF NeedsTypeEdge(objs[h])
                                          THEN {TypeEdge(objs[h])} ELSE {}
                    /\ (\A k \in Within({h}, d) :
                            CacheEqualsState(objs[k]) /\ ~NeedsTypeEdge(objs[k]))
                         => D.g_to_add = {} /\ D.g_to_remove = {}

\* C4: an instance with a populated range, clean together with its neighbours
C4_Witness ==
    \E h \in Handles :
        /\ CacheEqualsState(objs[h]) /\ objs[h].latest_cache.set
        /\ Nbrs(h) \ {h} # {}
        /\ \A k \in Within({h}, 1) : CacheEqualsState(objs[k]) /\ ~NeedsTypeEdge(objs[k])
        /\ collect_diff(objs, lookup, h, 1, IriSeq).g_to_add = {}

\* C5 (diff correctness of a reference property): with cached range C and
\* current range R, the diff at depth 0 removes exactly the edges to C \ R,
\* adds exactly the edges to R \ C, and emits no edge to an element of both.
C5_RefDiff ==
    \A h \in Handles, ord \in Orders :
        LET D == collect_diff(objs, lookup, h, 0, ord)
            id == objs[h].instance_iri
            C == objs[h].latest_cache.op_range
            R == Keys(objs[h].op_range)
        IN  /\ D.err = "ok"
            /\ {t \in D.g_to_remove : t[2] = myObjectProperty} = {RefEdge(id, e) : e \in C \ R}
            /\ {t \in D.g_to_add : t[2] = myObjectProperty} = {RefEdge(id, e) : e \in R \ C}
            /\ \A t \in D.g_to_add \cup D.g_to_remove :
                   t[3][1] = "uri" => t[3][2] \notin C \cap R

\* C5: cached {c, a}, current {a, b}: remove the edge to c, add the edge to b
C5_Witness ==
    \E h \in Handles :
        /\ objs[h].latest_cache.op_range = {"c", "a"}
        /\ Keys(objs[h].op_range) = {"a", "b"}
        /\ collect_diff(objs, lookup, h, 0, IriSeq).g_to_remove
               = {RefEdge(objs[h].instance_iri, "c")}

\* C6 (the lookup never overwrites): a registered iri keeps its instance
\* through every step but clear_ontology_object_lookup, and
\* set_new_ontology_object on a registered iri changes nothing, whatever
\* instance it is given.
C6_NeverOverwrites ==
    [][/\ \A i \in Iris, h \in Handles :
              lookup[i] # 0 => set_new_ontology_object(lookup, i, h).lookup = lookup
       /\ Clear \/ \A i \in Iris : lookup[i] # 0 => lookup'[i] = lookup[i]]_vars

\* C6: a later instance of a registered iri exists, and the lookup holds
\* the earlier one
C6_Witness ==
    \E h \in Handles :
        LET first == lookup[objs[h].instance_iri] IN first # 0 /\ first < h

\* C7 (set_new_ontology_object returns the resident instance): two calls
\* with the same iri and different instances both return the instance that
\* is registered after the first call.
C7_ReturnsResident ==
    \A h1 \in Handles, h2 \in Handles :
        (h1 # h2 /\ objs[h1].instance_iri = objs[h2].instance_iri) =>
            LET i == objs[h1].instance_iri
                R1 == set_new_ontology_object(lookup, i, h1)
                R2 == set_new_ontology_object(R1.lookup, i, h2)
            IN  R1.ret = R1.lookup[i] /\ R2.ret = R1.lookup[i]

\* C8 (pull idempotence): after pulling the same iris twice with the same
\* depth and nothing changed in between, every returned instance has an
\* empty diff.
C8_PullIdempotent ==
    \A iris \in PullInputs, d \in Depths, ord \in Orders :
        LET P1 == pull(objs, lookup, store, iris, d, ord)
            P2 == pull(P1.objs, P1.lookup, store, iris, d, ord)
        IN  (P1.err = "ok" /\ ~P1.full /\ P2.err = "ok" /\ ~P2.full) =>
                \A r \in P2.lst :
                    LET D == collect_diff(P2.objs, P2.lookup, r, 0, ord)
                    IN  D.err = "ok" /\ D.g_to_add = {} /\ D.g_to_remove = {}

\* C8: a pulled instance with a populated range that a further pull returns
C8_Witness ==
    \E h \in Handles :
        /\ objs[h].latest_cache.set /\ objs[h].op_range # {}
        /\ LET P == pull(objs, lookup, store, {objs[h].instance_iri}, 0, IriSeq)
           IN  P.err = "ok" /\ P.lst = {h}

\* Two fresh instances that reference each other and hold nothing else
C9_Pre(A, B) ==
    /\ A # B /\ objs[A].instance_iri # objs[B].instance_iri
    /\ Fresh(objs[A]) /\ Fresh(objs[B])
    /\ objs[A].op_range = {ObjElem(B, objs[B].instance_iri)}
    /\ objs[B].op_range = {ObjElem(A, objs[A].instance_iri)}
    /\ objs[A].dp_range = {} /\ objs[B].dp_range = {}
    /\ objs[A].rdfs_comment = None /\ objs[B].rdfs_comment = None

\* C9 (cycle safety): for such A and B the diff of A at depth 1 terminates
\* with exactly four edges to add (A to B, B to A and the two type edges) and
\* none to remove.
C9_CycleDiff ==
    \A A \in Handles, B \in Handles, ord \in Orders :
        C9_Pre(A, B) =>
            LET D == collect_diff(objs, lookup, A, 1, ord)
            IN  /\ D.err = "ok"
                /\ D.g_to_add = {RefEdge(objs[A].instance_iri, objs[B].instance_iri),
                                 RefEdge(objs[B].instance_iri, objs[A].instance_iri),
                                 TypeEdge(objs[A]), TypeEdge(objs[B])}
                /\ D.g_to_remove = {}

\* C9: such a pair exists and the diff of A at depth 1 has four edges
C9_Witness ==
    \E A \in Handles, B \in Handles :
        /\ C9_Pre(A, B)
        /\ Cardinality(collect_diff(objs, lookup, A, 1, IriSeq).g_to_add) = 4

InBounds(n, lo, hi) == n >= lo /\ n <= hi
RefInBounds(r) == InBounds(Cardinality(r), RefMinCard, RefMaxCard)
DataInBounds(r) == InBounds(Cardinality(r), DataMinCard, DataMaxCard)

\* C10 (cardinality enforcement): building a property or assigning a range
\* succeeds exactly when the size of the range is within the bounds of the
\* property, and otherwise raises and leaves the held range as it was; every
\* range of every instance is within its bounds.
C10_Cardinality ==
    /\ \A h \in Handles :
           RefInBounds(objs[h].op_range) /\ DataInBounds(objs[h].dp_range)
    /\ \A r \in RefInputs :
           MyObjectProperty(r).err = IF RefInBounds(r) THEN "ok" ELSE "CardinalityError"
    /\ \A l \in DataInputs :
           MyDataProperty(l).err
               = IF DataInBounds(SetOfList(l)) THEN "ok" ELSE "CardinalityError"
    /\ \A h \in Handles, r \in RefInputs :
           LET R == set_object_range(objs, h, r)
           IN  IF RefInBounds(r)
               THEN R.err = "ok" /\ R.objs[h].op_range = r
               ELSE R.err = "CardinalityError" /\ R.objs = objs
    /\ \A h \in Handles, l \in DataInputs :
           LET R == set_data_range(objs, lookup, h, l)
           IN  IF DataInBounds(SetOfList(l))
               THEN R.err = "ok" /\ R.objs[h].dp_range = SetOfList(l)
               ELSE R.err = "CardinalityError" /\ R.objs = objs
    /\ \A iri \in ObjIris, r \in RefInputs, l \in DataInputs :
           LET R == BaseOntology_init(objs, lookup, iri, r, l)
           IN  IF RefInBounds(r) /\ DataInBounds(SetOfList(l))
               THEN R.err = "ok" /\ Len(R.objs) = Len(objs) + 1
               ELSE R.err = "CardinalityError" /\ R.objs = objs /\ R.lookup = lookup

\* C10: a constructed instance whose ranges were assigned up to their maxima,
\* with inputs at hand that the properties reject
C10_Witness ==
    \E h \in Handles :
        /\ ~objs[h].latest_cache.set
        /\ Cardinality(objs[h].op_range) = RefMaxCard
        /\ Cardinality(objs[h].dp_range) = DataMaxCard
        /\ \E r \in RefInputs : set_object_range(objs, h, r).err = "CardinalityError"
        /\ \E l \in DataInputs : set_data_range(objs, lookup, h, l).err = "CardinalityError"

\* C11 (the type edge is emitted at most once per instance): a diff puts a
\* type edge into toAdd only for an instance that did not exist in the store
\* and had no cached rdf_type, and marks that instance as existing; at depth 0
\* it does so exactly when the instance needs it; no diff or pull, failed or
\* not, takes _exist_in_kg back to false; a second diff emits no type edge.
C11_TypeEdgeOnce ==
    /\ \A h \in Handles, d \in Depths, ord \in Orders :
           LET D == collect_diff(objs, lookup, h, d, ord)
           IN  /\ \A k \in Handles : objs[k].exist_in_kg => D.objs[k].exist_in_kg
               /\ \A t \in D.g_to_add :
                      t[2] = RDF_type =>
                          \E k \in Handles :
                              /\ t = TypeEdge(objs[k])
                              /\ NeedsTypeEdge(objs[k]) /\ D.objs[k].exist_in_kg
               /\ d = 0 => (TypeEdge(objs[h]) \in D.g_to_add <=> NeedsTypeEdge(objs[h]))
               /\ D.err = "ok" =>
                      \A t \in collect_diff(D.objs, lookup, h, d, ord).g_to_add :
                          t[2] # RDF_type
    /\ \A iris \in PullInputs, d \in Depths, ord \in Orders :
           LET P == pull(objs, lookup, store, iris, d, ord)
           IN  \A k \in Handles : objs[k].exist_in_kg => P.objs[k].exist_in_kg

\* C11: an instance that was diffed once and never pulled, which a further
\* diff leaves without a type edge
C11_Witness ==
    \E h \in Handles :
        /\ objs[h].exist_in_kg /\ ~objs[h].latest_cache.set
        /\ TypeEdge(objs[h]) \notin collect_diff(objs, lookup, h, 0, IriSeq).g_to_add

\* C12 (push leaves the cache snapshot untouched): after push_to_kg, at any
\* depth and whether it succeeds or not, the cache of every instance, the
\* pushed one and every one the recursive diff visits, is what it was before;
\* the same holds of a diff, of construction and of every assignment, so that
\* only a pull changes a cache.
C12_PushKeepsCache ==
    /\ \A h \in Handles, d \in Depths, ord \in Orders :
           LET R == push_to_kg(objs, lookup, store, h, d, ord)
               D == collect_diff(objs, lookup, h, d, ord)
           IN  \A k \in Handles :
                   /\ R.objs[k].latest_cache = objs[k].latest_cache
                   /\ D.objs[k].latest_cache = objs[k].latest_cache
    /\ \A h \in Handles, k \in Handles :
           /\ \A r \in RefInputs :
                  set_object_range(objs, h, r).objs[k].latest_cache = objs[k].latest_cache
           /\ \A l \in DataInputs :
                  set_data_range(objs, lookup, h, l).objs[k].latest_cache = objs[k].latest_cache
           /\ \A c \in Comments :
                  set_comment(objs, lookup, h, c).objs[k].latest_cache = objs[k].latest_cache
    /\ \A iri \in ObjIris, in \in InitInputs, k \in Handles :
           BaseOntology_init(objs, lookup, iri, in[1], in[2]).objs[k].latest_cache = objs[k].latest_cache

\* C12: an instance whose live state differs from its cache and whose push
\* succeeds with edges to send
C12_Witness ==
    \E h \in Handles :
        LET R == push_to_kg(objs, lookup, store, h, 0, IriSeq)
        IN  /\ R.err = "ok" /\ R.g_to_add # {}
            /\ objs[h].latest_cache.set
            /\ ~CacheEqualsState(objs[h])
            /\ R.store # store

\* C13 (no partial registry mutation on a failing pull): when a pull fails,
\* because a transport query of some recursion level raises or because an
\* instance cannot be built from the fetched values, the lookup after the
\* failure is the lookup of before the call.
C13_FailingPullKeepsRegistry ==
    \A iris \in PullInputs, d \in Depths, ord \in Orders, n \in FailAts :
        LET P == pull_failing(objs, lookup, store, iris, d, ord, n)
        IN  P.err \in {"TransportError", "CardinalityError"} => P.lookup = lookup

\* C14 (depth-limited pull): a pull with budget 0 issues exactly one transport
\* query and every instance it builds holds bare iris only in its object
\* range; a pull with budget 1 that starts on an empty lookup returns
\* instances whose object ranges hold instances only (0 hops: resolved),
\* and the instances these hold, unless returned themselves, hold bare iris
\* only (1 hop: unresolved).
C14_DepthLimitedPull ==
    \A iris \in PullInputs, ord \in Orders :
        /\ LET P == pull_failing(objs, lookup, store, iris, 0, ord, 0)
           IN  (P.err = "ok" /\ ~P.full) =>
                   /\ P.queries = 1
                   /\ \A h \in P.lst :
                          h \notin Handles => \A e \in P.objs[h].op_range : e.o = 0
        /\ LET P == pull_failing(objs, clear_ontology_object_lookup, store, iris, 1, ord, 0)
           IN  (P.err = "ok" /\ ~P.full) =>
                   \A h \in P.lst :
                       \A e \in P.objs[h].op_range :
                           /\ e.o # 0
                           /\ e.o \notin P.lst => \A f \in P.objs[e.o].op_range : f.o = 0

\* C15 (the cache equals the fetched state after a pull): when a pull
\* succeeds, the cache of every returned instance holds, for each declared
\* property, exactly the values the store holds for the instance's iri
\* (references as iris), whether the instance was built by this pull or was
\* resident and edited in memory before it.
C15_CacheEqualsFetched ==
    \A iris \in PullInputs, d \in Depths, ord \in Orders :
        LET P == pull(objs, lookup, store, iris, d, ord)
        IN  (P.err = "ok" /\ ~P.full) =>
                \A h \in P.lst :
                    LET o == P.objs[h]
                    IN  /\ o.latest_cache.set
                        /\ o.latest_cache.op_range = Props(store, o.instance_iri, myObjectProperty)
                        /\ o.latest_cache.dp_range = Props(store, o.instance_iri, myDataProperty)

\* C16 (registration is an atomic check-then-insert): under every
\* interleaving of the threads' membership tests and insertions, an entry of
\* the lookup, once written, is never replaced, and callers that registered
\* instances under the same iri and then looked the iri up got the same
\* instance.
C16_AtomicRegister ==
    [][/\ \A i \in Iris : lookup[i] # 0 => lookup'[i] = lookup[i]
       /\ \A t \in Threads, u \in Threads :
              (thr'[t].pc = "done" /\ thr'[u].pc = "done" /\ thr'[t].iri = thr'[u].iri)
                  => thr'[t].seen = thr'[u].seen]_vars

\* C17 (defaulting runs exactly once, at construction): an assignment to a
\* field of a constructed instance (its comment, a property) leaves its
\* instance_iri and rdf_type as they were and adds no entry to the lookup.
C17_DefaultsOnce ==
    \A h \in Handles :
        /\ \A c \in Comments :
               LET R == set_comment(objs, lookup, h, c)
               IN  /\ R.lookup = lookup
                   /\ R.objs[h].instance_iri = objs[h].instance_iri
                   /\ R.objs[h].rdf_type = objs[h].rdf_type
        /\ \A l \in DataInputs :
               LET R == set_data_range(objs, lookup, h, l)
               IN  /\ R.lookup = lookup
                   /\ R.objs[h].instance_iri = objs[h].instance_iri
                   /\ R.objs[h].rdf_type = objs[h].rdf_type

\* C18 (pull returns the resident instances): after a successful pull with a
\* finite depth, every returned instance is the instance the lookup holds
\* for its iri.
C18_PullReturnsResident ==
    \A iris \in PullInputs, d \in 0..MaxDepth, ord \in Orders :
        LET P == pull(objs, lookup, store, iris, d, ord)
        IN  (P.err = "ok" /\ ~P.full) =>
                \A h \in P.lst :
                    get_ontology_object_from_lookup(P.lookup, P.objs[h].instance_iri) = h

\* C19 (the depth-budget arithmetic is the same in pull and diff): in both,
\* recursion is enabled exactly when the absolute value of the budget is
\* positive, and the budget passed on is the budget minus one floored at 0 for
\* a budget of 0 or more, and -1 for a budget of -1 or less; a diff and a pull
\* with a budget below -1 do what they do with the budget -1.
C19_DepthArithmetic ==
    /\ \A b \in Budgets :
           /\ RecursionFlag(b) = (b # 0)
           /\ PullFlag(b) = (b # 0)
           /\ NextDepth(b) = (IF b >= 0 THEN (IF b = 0 THEN 0 ELSE b - 1) ELSE 0 - 1)
           /\ PullNextDepth(b) = NextDepth(b)
    /\ \A b \in Budgets, ord \in Orders :
           b < 0 - 1 =>
               /\ \A h \in Handles :
                      collect_diff(objs, lookup, h, b, ord) = collect_diff(objs, lookup, h, 0 - 1, ord)
               /\ \A iris \in PullInputs :
                      pull(objs, lookup, store, iris, b, ord) = pull(objs, lookup, store, iris, 0 - 1, ord)

\* C19: an instance whose diff with a budget below -1 succeeds and, having
\* recursed, emits edges that its diff with budget 0 does not
C19_Witness ==
    \E h \in Handles :
        LET D == collect_diff(objs, lookup, h, 0 - MaxBudget, IriSeq)
        IN  /\ D.err = "ok"
            /\ D.g_to_add # collect_diff(objs, lookup, h, 0, IriSeq).g_to_add

\* C20 (the diff is bounded by its depth): for every finite budget n >= 0
\* and every instance x, whatever cycles and shared references the instances
\* form, the diff of x ends without error, every edge it emits has as subject
\* the iri of an instance at most n references from x, and every instance
\* further away is left as it was; at n = 0 every edge has x as subject and
\* no other instance changes.
C20_DepthBoundedDiff ==
    \A h \in Handles, n \in 0..MaxBudget, ord \in Orders :
        LET D == collect_diff(objs, lookup, h, n, ord)
            near == Within({h}, n)
        IN  /\ D.err = "ok"
            /\ \A t \in D.g_to_add \cup D.g_to_remove :
                   \E k \in near : objs[k].instance_iri = t[1]
            /\ \A k \in Handles \ near : D.objs[k] = objs[k]
            /\ n = 0 =>
                   /\ \A t \in D.g_to_add \cup D.g_to_remove : t[1] = objs[h].instance_iri
                   /\ \A k \in Handles \ {h} : D.objs[k] = objs[k]

\* C20: two instances of different iris that reference each other; the diff
\* of one at depth 1 emits the type edge of the other, its diff at depth 0
\* does not
C20_Witness ==
    \E h \in Handles, k \in Handles :
        /\ objs[h].instance_iri # objs[k].instance_iri
        /\ k \in Nbrs(h) /\ h \in Nbrs(k)
        /\ TypeEdge(objs[k]) \in collect_diff(objs, lookup, h, 1, IriSeq).g_to_add
        /\ TypeEdge(objs[k]) \notin collect_diff(objs, lookup, h, 0, IriSeq).g_to_add

\* The instances on a cycle of references (live or cached, instances or iris
\* the lookup resolves), and those from which such a cycle can be reached
OnCycle(k) == k \in Within(Nbrs(k), 0 - 1)
ReachesCycle(h) == \E k \in Within({h}, 0 - 1) : OnCycle(k)

Resident(k) == lookup[objs[k].instance_iri] = k

\* C21 (the unbounded diff keeps no visited set): with a budget of -1 or
\* below, the diff of an instance never returns when a cycle of references
\* can be reached from it and the instances it can reach are resident,
\* whether the references of the cycle are new, removed or unchanged
\* against the cache; it returns when no cycle can be reached.
C21_UnboundedDiffOnCycle ==
    \A h \in Handles, b \in Budgets, ord \in Orders :
        b < 0 =>
            LET D == collect_diff(objs, lookup, h, b, ord)
            IN  /\ D.err = "RecursionError" => ReachesCycle(h)
                /\ (ReachesCycle(h) /\ \A k \in Within({h}, 0 - 1) : Resident(k))
                       => D.err = "RecursionError"
                /\ D.err # "ok" => D.g_to_add = {} /\ D.g_to_remove = {}

\* C21: two resident instances of different iris that hold each other, and
\* the unbounded diff of one of them never returns
C21_Witness ==
    \E h \in Handles, k \in Handles :
        /\ objs[h].instance_iri # objs[k].instance_iri
        /\ lookup[objs[h].instance_iri] = h /\ lookup[objs[k].instance_iri] = k
        /\ k \in Nbrs(h) /\ h \in Nbrs(k)
        /\ collect_diff(objs, lookup, h, 0 - 1, IriSeq).err = "RecursionError"

\* C22 (pull terminates on every finite store): for every depth budget, -1
\* and below included, and every set of iris, the pull returns (with its
\* instances or with an error of the transport or of the validation) after
\* finitely many transport queries: it never recurses without end.
C22_PullTerminates ==
    \A iris \in PullInputs, b \in Budgets, ord \in Orders :
        pull(objs, lookup, store, iris, b, ord).err # "RecursionError"

\* C23 (intersection recursion): when the budget permits recursion
\* (abs(budget) > 0) and the reference range of x holds an element that is
\* also in the cached range and whose identifier the registry resolves to
\* an instance y (the element is y itself, or the bare identifier of y),
\* every edge of the diff of y at the decremented budget is in the same
\* sets of the diff of x, and the edge (x, myObjectProperty, y) is not
\* emitted for x (stated where no other instance carries the identifier of
\* x).  When every element of the live and of the cached range is a bare
\* identifier that the registry does not hold, nothing is visited and the
\* diff of x is its diff at budget 0.
C23_IntersectionRecursion ==
    \A h \in Handles, b \in Budgets \ {0}, ord \in Orders :
        LET D == collect_diff(objs, lookup, h, b, ord)
            x == objs[h]
        IN  D.err = "ok" =>
                /\ \A e \in x.op_range :
                       LET y == get_ontology_object_from_lookup(lookup, e.s)
                           Dy == collect_diff(objs, lookup, y, NextDepth(b), ord)
                       IN  (e.s \in x.latest_cache.op_range /\ y # 0 /\ e.o \in {0, y}) =>
                               /\ Dy.g_to_add \subseteq D.g_to_add
                               /\ Dy.g_to_remove \subseteq D.g_to_remove
                               /\ UniqueIri(h) =>
                                      RefEdge(x.instance_iri, e.s) \notin D.g_to_add \cup D.g_to_remove
                /\ Nbrs(h) = {} =>
                       /\ D.g_to_add = collect_diff(objs, lookup, h, 0, ord).g_to_add
                       /\ D.g_to_remove = collect_diff(objs, lookup, h, 0, ord).g_to_remove

\* C23 is exercised where x is unchanged against its cache, holds a
\* registered neighbour of another identifier that has a pending edit, and
\* the neighbour's edit is part of the diff of x at budget 1 only
C23_Witness ==
    \E h \in Handles, ord \in Orders :
        LET x == objs[h]
            D == collect_diff(objs, lookup, h, 1, ord)
            D0 == collect_diff(objs, lookup, h, 0, ord)
        IN  /\ UniqueIri(h)
            /\ D.err = "ok"
            /\ D0.g_to_add \cup D0.g_to_remove = {}
            /\ \E e \in x.op_range :
                   LET y == get_ontology_object_from_lookup(lookup, e.s)
                       Dy == collect_diff(objs, lookup, y, 0, ord)
                   IN  /\ e.s \in x.latest_cache.op_range
                       /\ y # 0 /\ y # h /\ e.o \in {0, y}
                       /\ Dy.g_to_add \cup Dy.g_to_remove # {}
                       /\ Dy.g_to_add \subseteq D.g_to_add

\* C23 as claimed: the edge from x to the unchanged element is in neither
\* set of the diff of x, whatever the other instances are
C23_NoEdgeToUnchanged ==
    \A h \in Handles, b \in Budgets \ {0}, ord \in Orders :
        LET D == collect_diff(objs, lookup, h, b, ord)
            x == objs[h]
        IN  D.err = "ok" =>
                \A e \in x.op_range :
                    LET y == get_ontology_object_from_lookup(lookup, e.s)
                    IN  (e.s \in x.latest_cache.op_range /\ y # 0 /\ e.o \in {0, y}) =>
                            RefEdge(x.instance_iri, e.s) \notin D.g_to_add \cup D.g_to_remove

\* The range elements a caller can write: the bare iris and the instances
RangeElems == {StrElem(i) : i \in Iris} \cup {ObjElem(k, objs[k].instance_iri) : k \in Handles}
\* The other form of a range element: the bare iri of an instance held, an
\* instance of the iri for a bare iri
OtherForms(e) ==
    IF e.o # 0 THEN {StrElem(e.s)}
    ELSE {ObjElem(k, e.s) : k \in {j \in Handles : objs[j].instance_iri = e.s}}

\* C24 (an instance and its identifier are the same range element): a set
\* built from an instance and the bare identifier of the same iri holds one
\* of them (the first given), no range of any instance holds two elements of
\* one iri, and replacing in a range an element whose iri the cache records
\* by its other form (the bare iri by an instance of that iri, or the
\* instance by its bare iri) is accepted and leaves the diff at budget 0 as
\* it was, with no edge to that iri added or removed.
C24_InstanceEqualsIdentifier ==
    /\ \A e \in RangeElems, f \in RangeElems :
           LET r == SetOfElems(<<e, f>>)
           IN  /\ e \in r
               /\ e.s = f.s => r = {e}
               /\ e.s # f.s => r = {e, f}
               /\ e.s = f.s <=> SetDifference({e}, {f}) = {}
    /\ \A h \in Handles :
           /\ \A e \in objs[h].op_range, f \in objs[h].op_range : e.s = f.s => e = f
           /\ \A e \in objs[h].op_range, ord \in Orders : \A f \in OtherForms(e) :
                  LET x == objs[h]
                      R == set_object_range(objs, h, SetOfElems(<<f>>) \cup (x.op_range \ {e}))
                      D == collect_diff(objs, lookup, h, 0, ord)
                      DR == collect_diff(R.objs, lookup, h, 0, ord)
                  IN  e.s \in x.latest_cache.op_range =>
                          /\ R.err = "ok"
                          /\ f \in R.objs[h].op_range /\ e \notin R.objs[h].op_range
                          /\ DR.g_to_add = D.g_to_add /\ DR.g_to_remove = D.g_to_remove
                          /\ RefEdge(x.instance_iri, e.s) \notin DR.g_to_add \cup DR.g_to_remove

\* C24 is exercised where an instance holds the bare iri of another
\* instance, the cache records that iri, and the bare iri is replaced by the
\* instance
C24_Witness ==
    \E h \in Handles, k \in Handles :
        LET x == objs[h]
            e == StrElem(objs[k].instance_iri)
            f == ObjElem(k, objs[k].instance_iri)
        IN  /\ k # h
            /\ e \in x.op_range
            /\ e.s \in x.latest_cache.op_range
            /\ set_object_range(objs, h, SetOfElems(<<f, e>>) \cup (x.op_range \ {e})).objs[h].op_range = {f} \cup (x.op_range \ {e})

\* C25 (a failed push can be retried without loss): when the transport
\* raises in the update of a push, the failure propagates, the store is
\* untouched, every instance is as before the call, and a second push of the
\* same instance submits the add and remove sets of the first attempt.
C25_FailedPushRetry ==
    \A h \in Handles, d \in Depths, ord \in Orders :
        LET first == push_to_kg(objs, lookup, store, h, d, ord)
            F == push_failing(objs, lookup, store, h, d, ord, TRUE)
            again == push_to_kg(F.objs, lookup, F.store, h, d, ord)
        IN  first.err = "ok" =>
                /\ F.err = "TransportError"
                /\ F.store = store
                /\ F.objs = objs
                /\ again.g_to_add = first.g_to_add
                /\ again.g_to_remove = first.g_to_remove

\* The live state of an instance: its ranges, comment and type
Live(o) == <<o.op_range, o.dp_range, o.rdfs_comment, o.rdf_type, o.instance_iri>>

\* C26 (a pull never overwrites the live state of a resident instance): for
\* every pull that returns, at every budget, every instance that existed
\* before the pull has the live ranges, comment and type it had; and for
\* every requested iri that the store knows and the lookup already held, the
\* registered instance stays registered, is in the returned list, has
\* exist_in_kg set and a cache taken from its live state, whatever the
\* store holds for the iri.
C26_PullKeepsLiveState ==
    \A iris \in PullInputs, b \in Budgets, ord \in Orders :
        LET P == pull(objs, lookup, store, iris, b, ord)
        IN  (P.err = "ok" /\ ~P.full) =>
                /\ \A k \in Handles : Live(P.objs[k]) = Live(objs[k])
                /\ \A i \in get_outgoing_and_attributes(store, iris) :
                       LET k == get_ontology_object_from_lookup(lookup, i)
                       IN  k # 0 =>
                               /\ get_ontology_object_from_lookup(P.lookup, i) = k
                               /\ k \in P.lst
                               /\ P.objs[k].exist_in_kg
                               /\ P.objs[k].latest_cache = create_cache(objs[k])

\* C26 is exercised where a registered instance differs from what the store
\* holds for its iri in both ranges and has a cache that differs from its
\* live state, and a pull of its iri returns it with the cache refreshed
C26_Witness ==
    \E i \in Iris, ord \in Orders :
        LET k == get_ontology_object_from_lookup(lookup, i)
            P == pull(objs, lookup, store, {i}, 0, ord)
        IN  /\ k # 0
            /\ P.err = "ok" /\ ~P.full
            /\ k \in P.lst
            /\ Keys(objs[k].op_range) # Props(store, i, myObjectProperty)
            /\ objs[k].dp_range # Props(store, i, myDataProperty)
            /\ objs[k].latest_cache.set
            /\ objs[k].latest_cache # create_cache(objs[k])
            /\ P.objs[k].latest_cache = create_cache(objs[k])
            /\ P.objs[k].op_range = objs[k].op_range

====
